---- MODULE Spec2Model ----
(***************************************************************************)
(* Model of the bencode codec (encode.ts, decode.ts, types.ts, tokens.ts)  *)
(* and of the UDP tracker messaging (BTMessaging.ts) of                    *)
(* BitTorrent-client-js.                                                   *)
(*                                                                         *)
(* A JavaScript string is a sequence of UTF-16 code units, modelled as a   *)
(* sequence of naturals.  A Buffer is a sequence of bytes (0..255).  A Try *)
(* is a record [ok |-> TRUE, value |-> v] or [ok |-> FALSE, error |-> e].  *)
(* Offsets are 0-based as in the source; At(a, i) reads a[i].              *)
(***************************************************************************)
EXTENDS Integers, Sequences, FiniteSets, TLC

(***************************************************************************)
(* Bounds of the model.                                                    *)
(***************************************************************************)
\* longest text drawn over TextAlphabet
MaxLen == 3
\* longest long text (a run of one character), for two-digit length prefixes
MaxLong == 11
\* longest byte string array drawn over WireAlphabet
MaxBuf == 5
\* largest decode offset drawn
MaxOffset == 2
\* most elements in a drawn array and most entries in a drawn map or object
MaxItems == 2
\* most calls of createConnectMessage in one run
MaxCalls == 2
\* longest buffer a transaction id randomizer returns
MaxRandLen == 5
\* longest datagram drawn as the response of a tracker
MaxResponse == 17
\* most datagrams that arrive on the socket in one run
MaxArrivals == 2
\* longest buffer given to decode
MaxScan == 4

(***************************************************************************)
(* Strings and buffers.                                                    *)
(***************************************************************************)
\* the UTF-16 code unit of each one-character literal the model writes
CharCode ==
  ("0" :> 48) @@ ("1" :> 49) @@ ("2" :> 50) @@ ("3" :> 51) @@ ("4" :> 52) @@
  ("5" :> 53) @@ ("6" :> 54) @@ ("7" :> 55) @@ ("8" :> 56) @@ ("9" :> 57) @@
  (":" :> 58) @@ ("-" :> 45) @@ ("+" :> 43) @@ ("B" :> 66) @@
  ("a" :> 97) @@ ("b" :> 98) @@ ("d" :> 100) @@ ("e" :> 101) @@
  ("i" :> 105) @@ ("l" :> 108) @@ ("m" :> 109) @@ ("p" :> 112) @@
  ("s" :> 115) @@ ("t" :> 116) @@ ("u" :> 117) @@ ("/" :> 47) @@
  ("U+00E9" :> 233) @@ ("U+D83D" :> 55357) @@ ("U+DE00" :> 56832) @@
  ("U+FFFD" :> 65533)

\* a string literal, written as a tuple of one-character strings
Str(lit) == [i \in 1..Len(lit) |-> CharCode[lit[i]]]

\* U+00E9, a character of two UTF-8 bytes
EAcute == CharCode["U+00E9"]
\* U+D83D and U+DE00: a high and a low surrogate code unit
HighSurrogate == CharCode["U+D83D"]
LowSurrogate == CharCode["U+DE00"]
\* U+FFFD, what the UTF-8 conversion puts for an unpaired surrogate
ReplacementChar == CharCode["U+FFFD"]

IsHigh(c) == c >= 55296 /\ c <= 56319
IsLow(c) == c >= 56320 /\ c <= 57343

\* array[index] of a JavaScript array: defined for 0 <= index < length
InRange(a, i) == i >= 0 /\ i < Len(a)
At(a, i) == a[i + 1]
\* array.slice(from, to)
Slice(a, from, to) == SubSeq(a, from + 1, to)

RECURSIVE Flatten(_)
\* Buffer.concat(list), and array.join('') of an array of strings
Flatten(list) ==
  IF list = <<>> THEN <<>> ELSE Head(list) \o Flatten(Tail(list))

\* the UTF-8 bytes of one code point
Utf8OfCodePoint(cp) ==
  IF cp < 128 THEN <<cp>>
  ELSE IF cp < 2048 THEN <<192 + (cp \div 64), 128 + (cp % 64)>>
  ELSE IF cp < 65536
    THEN <<224 + (cp \div 4096), 128 + ((cp \div 64) % 64), 128 + (cp % 64)>>
  ELSE <<240 + (cp \div 262144), 128 + ((cp \div 4096) % 64),
         128 + ((cp \div 64) % 64), 128 + (cp % 64)>>

RECURSIVE BufferFrom(_)
\* Buffer.from(text, 'utf-8'): a surrogate pair is one code point of four
\* bytes, an unpaired surrogate becomes U+FFFD (EF BF BD)
BufferFrom(text) ==
  IF text = <<>> THEN <<>>
  ELSE LET c == Head(text) IN
    IF IsHigh(c) /\ Len(text) >= 2 /\ IsLow(text[2])
      THEN Utf8OfCodePoint(65536 + (c - 55296) * 1024 + (text[2] - 56320))
           \o BufferFrom(Tail(Tail(text)))
    ELSE IF IsHigh(c) \/ IsLow(c)
      THEN Utf8OfCodePoint(ReplacementChar) \o BufferFrom(Tail(text))
    ELSE Utf8OfCodePoint(c) \o BufferFrom(Tail(text))

\* the code units of one code point
CodeUnitsOf(cp) ==
  IF cp < 65536 THEN <<cp>>
  ELSE <<55296 + ((cp - 65536) \div 1024), 56320 + ((cp - 65536) % 1024)>>

IsCont(buffer, k) == k <= Len(buffer) /\ buffer[k] >= 128 /\ buffer[k] < 192

RECURSIVE BufferToString(_)
\* buffer.toString('utf-8'): a byte that starts no complete sequence becomes
\* U+FFFD
BufferToString(buffer) ==
  IF buffer = <<>> THEN <<>>
  ELSE LET b == Head(buffer) IN
    IF b < 128 THEN <<b>> \o BufferToString(Tail(buffer))
    ELSE IF b >= 194 /\ b < 224 /\ IsCont(buffer, 2)
      THEN CodeUnitsOf((b - 192) * 64 + (buffer[2] - 128))
           \o BufferToString(SubSeq(buffer, 3, Len(buffer)))
    ELSE IF b >= 224 /\ b < 240 /\ IsCont(buffer, 2) /\ IsCont(buffer, 3)
      THEN CodeUnitsOf((b - 224) * 4096 + (buffer[2] - 128) * 64
                       + (buffer[3] - 128))
           \o BufferToString(SubSeq(buffer, 4, Len(buffer)))
    ELSE IF b >= 240 /\ b < 245 /\ IsCont(buffer, 2) /\ IsCont(buffer, 3)
            /\ IsCont(buffer, 4)
      THEN CodeUnitsOf((b - 240) * 262144 + (buffer[2] - 128) * 4096
                       + (buffer[3] - 128) * 64 + (buffer[4] - 128))
           \o BufferToString(SubSeq(buffer, 5, Len(buffer)))
    ELSE <<ReplacementChar>> \o BufferToString(Tail(buffer))

\* decode.ts toByteString: buffer.toString(encoding).split('')
toByteString(buffer) == BufferToString(buffer)

(***************************************************************************)
(* Try.                                                                    *)
(***************************************************************************)
Success(v) == [ok |-> TRUE, value |-> v]
Failure(e) == [ok |-> FALSE, error |-> e]

\* v1.zipWith(v2, (a, b) => a.concat([b])): both values when both
\* succeeded, else the first failure
zipAppend(v1, v2) ==
  IF ~v1.ok THEN v1
  ELSE IF ~v2.ok THEN v2
  ELSE Success(Append(v1.value, v2.value))

\* tries.reduce((v1, v2) => v1.zipWith(v2, ...), initial): the fold of
\* zipAppend from the left, which is the first failure met if there is one
\* and else every value appended in order
reduceZip(tries, initial) ==
  LET failed == {i \in 1..Len(tries) : ~tries[i].ok}
  IN IF ~initial.ok THEN initial
     ELSE IF failed # {}
       THEN tries[CHOOSE i \in failed : \A j \in failed : i <= j]
     ELSE Success(initial.value \o [i \in 1..Len(tries) |-> tries[i].value])

(***************************************************************************)
(* Numbers.                                                                *)
(***************************************************************************)
RECURSIVE NatToString(_)
\* the decimal text of a non-negative integer ('' + n)
NatToString(n) ==
  IF n < 10 THEN <<48 + n>>
  ELSE NatToString(n \div 10) \o <<48 + (n % 10)>>

\* tokens.ts
delimiter == CharCode[":"]
dictionary_start == CharCode["d"]

(***************************************************************************)
(* types.ts: the values that can be bencoded.  A number is n, or n + 1/2   *)
(* when frac; a Map and a key-value object hold their entries in insertion *)
(* order, with no key twice.                                               *)
(***************************************************************************)
StrV(text) == [t |-> "str", s |-> text]
NumV(n) == [t |-> "num", n |-> n, frac |-> FALSE]
FracV(n) == [t |-> "num", n |-> n, frac |-> TRUE]
BoolV(b) == [t |-> "bool", b |-> b]
ArrV(items) == [t |-> "arr", items |-> items]
MapV(entries) == [t |-> "map", entries |-> entries]
ObjV(entries) == [t |-> "obj", entries |-> entries]

isBencodablePrimitive(obj) == obj.t \in {"bool", "num", "str"}

(***************************************************************************)
(* encode.ts                                                               *)
(***************************************************************************)
encodeInt(number) ==
  IF number.n < 0 THEN Failure("Integer to be encoded cannot be negative")
  ELSE IF number.frac THEN Failure("not an integer")
  ELSE Success(BufferFrom(Str(<<"i">>) \o NatToString(number.n) \o Str(<<"e">>)))

encodeBoolean(boolean) == encodeInt(NumV(IF boolean.b THEN 1 ELSE 0))

\* text.length counts UTF-16 code units
encodeString(text) ==
  BufferFrom(NatToString(Len(text)) \o Str(<<":">>) \o text)

encodePrimitive(primitive) ==
  IF primitive.t = "str" THEN Success(encodeString(primitive.s))
  ELSE IF primitive.t = "num" THEN encodeInt(primitive)
  ELSE encodeBoolean(primitive)

\* an array encoded without the elements that failed
encodeArray_skipFailed(array) ==
  LET pre == BufferFrom(Str(<<"l">>))
      post == BufferFrom(Str(<<"e">>))
      tries == [i \in 1..Len(array) |-> encodePrimitive(array[i])]
      buffers == reduceZip(SelectSeq(tries, LAMBDA v : v.ok), Success(<<>>))
  IN Success(<<pre>> \o buffers.value \o <<post>>)

encodeArray(array) ==
  LET pre == BufferFrom(Str(<<"l">>))
      post == BufferFrom(Str(<<"e">>))
      tries == [i \in 1..Len(array) |-> encodePrimitive(array[i])]
      buffers == reduceZip(tries, Success(<<>>))
  IN IF buffers.ok THEN Success(<<pre>> \o buffers.value \o <<post>>)
     ELSE buffers

RECURSIVE StringLess(_, _)
\* a < b for two strings: by UTF-16 code units, a proper prefix first
StringLess(a, b) ==
  IF b = <<>> THEN FALSE
  ELSE IF a = <<>> THEN TRUE
  ELSE IF Head(a) # Head(b) THEN Head(a) < Head(b)
  ELSE StringLess(Tail(a), Tail(b))

RECURSIVE InsertSorted(_, _)
InsertSorted(key, sorted) ==
  IF sorted = <<>> THEN <<key>>
  ELSE IF StringLess(Head(sorted), key)
    THEN <<Head(sorted)>> \o InsertSorted(key, Tail(sorted))
  ELSE <<key>> \o sorted

RECURSIVE SortStrings(_)
\* array.sort() with the default comparison
SortStrings(keys) ==
  IF keys = <<>> THEN <<>>
  ELSE InsertSorted(Head(keys), SortStrings(Tail(keys)))

\* Array.from(map.keys()): the keys in insertion order
MapKeys(entries) == [i \in 1..Len(entries) |-> entries[i].key]

\* Try.unwrap(map.get(key), ...)
MapGet(entries, key) ==
  IF \E i \in 1..Len(entries) : entries[i].key = key
    THEN Success(entries[CHOOSE i \in 1..Len(entries) : entries[i].key = key].value)
  ELSE Failure("Missing value for key")

\* the keys left in insertion order
encodeMapKeys_insertionOrder(entries) == MapKeys(entries)

\* Array.from(map.keys()).sort()
encodeMapKeys(entries) == SortStrings(MapKeys(entries))

encodeMap(entries) ==
  LET pre == BufferFrom(Str(<<"d">>))
      post == BufferFrom(Str(<<"e">>))
      keys == encodeMapKeys(entries)
      buffers == [j \in 1..(2 * Len(keys)) |->
        LET key == keys[(j + 1) \div 2]
            value == MapGet(entries, key)
        IN IF j % 2 = 1 THEN Success(encodeString(key))
           ELSE IF value.ok THEN encodePrimitive(value.value) ELSE value]
      failableBuffers == reduceZip(buffers, Success(<<>>))
  IN IF failableBuffers.ok
       THEN Success(<<pre>> \o failableBuffers.value \o <<post>>)
     ELSE failableBuffers

RECURSIVE DigitsValue(_)
DigitsValue(text) ==
  IF text = <<>> THEN 0
  ELSE 10 * DigitsValue(SubSeq(text, 1, Len(text) - 1)) + (text[Len(text)] - 48)

IsDigit(c) == c >= 48 /\ c <= 57
\* a canonical decimal: digits, no leading zero unless the text is "0"
IsCanonicalDecimal(text) ==
  /\ text # <<>>
  /\ \A i \in 1..Len(text) : IsDigit(text[i])
  /\ (Len(text) > 1 => text[1] # 48)

\* Objects.toMap(obj): the object's own keys in property order, integer
\* keys first in ascending numeric order, then the others as inserted
ObjectsToMap(entries) ==
  LET isIndex(i) == IsCanonicalDecimal(entries[i].key)
      rank(i) == Cardinality({j \in 1..Len(entries) :
        \/ isIndex(j) /\ ~isIndex(i)
        \/ isIndex(j) /\ isIndex(i)
           /\ DigitsValue(entries[j].key) < DigitsValue(entries[i].key)
        \/ ~isIndex(j) /\ ~isIndex(i) /\ j < i}) + 1
  IN [k \in 1..Len(entries) |->
       entries[CHOOSE i \in 1..Len(entries) : rank(i) = k]]

encodeKVObject(entries) == encodeMap(ObjectsToMap(entries))

encode(obj) ==
  LET buffers ==
        IF isBencodablePrimitive(obj)
          THEN LET p == encodePrimitive(obj)
               IN IF p.ok THEN Success(<<p.value>>) ELSE p
        ELSE IF obj.t = "arr" THEN encodeArray(obj.items)
        ELSE IF obj.t = "map" THEN encodeMap(obj.entries)
        ELSE encodeKVObject(obj.entries)
  IN IF buffers.ok THEN Success(Flatten(buffers.value)) ELSE buffers

(***************************************************************************)
(* decode.ts.  A decoded number is [nan |-> FALSE, n |-> n] or NaN.        *)
(***************************************************************************)
Num(n) == [nan |-> FALSE, n |-> n]
NaN == [nan |-> TRUE, n |-> 0]
\* a + b of a number and an integer
Plus(a, b) == IF a.nan THEN NaN ELSE Num(a.n + b)

RECURSIVE DigitPrefix(_)
\* the longest run of decimal digits a text starts with
DigitPrefix(text) ==
  IF text # <<>> /\ IsDigit(Head(text))
    THEN <<Head(text)>> \o DigitPrefix(Tail(text))
  ELSE <<>>

\* Number.parseInt(text): an optional sign, then the longest run of decimal
\* digits; what follows the digits is ignored, and no digit at all gives NaN.
\* (The texts of the model hold no white space and no x, which parseInt
\* would skip or read as a hexadecimal prefix.)
ParseInt(text) ==
  LET signed == text # <<>> /\ Head(text) \in {CharCode["-"], CharCode["+"]}
      digits == DigitPrefix(IF signed THEN Tail(text) ELSE text)
  IN IF digits = <<>> THEN NaN
     ELSE IF signed /\ Head(text) = CharCode["-"]
       THEN Num(0 - DigitsValue(digits))
     ELSE Num(DigitsValue(digits))

\* Collections.elementAtIndex(array, index)
elementAtIndex(array, index) ==
  IF InRange(array, index) THEN Success(At(array, index))
  ELSE Failure("No element found at index")

\* Numbers.range(start, end): start, start + 1, ..., end - 1; empty when end
\* is NaN or not above start
NumbersRange(start, end) ==
  IF end.nan \/ end.n <= start THEN <<>>
  ELSE [i \in 1..(end.n - start) |-> start + i - 1]

\* a scan that runs on to the last ':' of the array
findNextDelimiterOffsetPosition_last(bytes, offset) ==
  LET found == {i \in offset..(Len(bytes) - 1) : At(bytes, i) = delimiter}
  IN IF offset < 0 \/ found = {} THEN Failure("Value not available")
     ELSE Success(CHOOSE i \in found : \A j \in found : j <= i)

RECURSIVE findNextDelimiterOffsetPosition(_, _)
findNextDelimiterOffsetPosition(bytes, offset) ==
  IF ~InRange(bytes, offset) THEN Failure("Value not available")
  ELSE IF At(bytes, offset) = delimiter THEN Success(offset)
  ELSE findNextDelimiterOffsetPosition(bytes, offset + 1)

decodeStringLength(bytes, offset) ==
  LET found == findNextDelimiterOffsetPosition(bytes, offset)
  IN IF found.ok
       THEN Success(<<ParseInt(Slice(bytes, offset, found.value)), found.value>>)
     ELSE found

\* a content read by bytes.slice, which returns what there is
decodeStringContent_sliced(bytes, offset, length) ==
  LET first == elementAtIndex(bytes, offset)
  IN IF ~first.ok THEN first
     ELSE IF first.value # delimiter THEN Failure("Incorrect delimiter found")
     ELSE
       LET startOffset == offset + 1
           endOffset == Plus(length, startOffset)
           indexes == NumbersRange(startOffset, endOffset)
       IN Success(<<[i \in 1..Len(SelectSeq(indexes, LAMBDA k : InRange(bytes, k)))
                      |-> At(bytes, indexes[i])],
                    length>>)

decodeStringContent(bytes, offset, length) ==
  LET first == elementAtIndex(bytes, offset)
  IN IF ~first.ok THEN first
     ELSE IF first.value # delimiter THEN Failure("Incorrect delimiter found")
     ELSE
       LET startOffset == offset + 1
           endOffset == Plus(length, startOffset)
           indexes == NumbersRange(startOffset, endOffset)
           elements == [i \in 1..Len(indexes) |-> elementAtIndex(bytes, indexes[i])]
           joined == reduceZip(elements, Success(<<>>))
       IN IF joined.ok THEN Success(<<joined.value, length>>) ELSE joined

decodeString(bytes, offset) ==
  LET v == decodeStringLength(bytes, offset)
  IN IF ~v.ok THEN v
     ELSE
       LET afterLengthOffset == offset + v.value[2]
           v1 == decodeStringContent(bytes, afterLengthOffset, v.value[1])
       IN IF v1.ok
            THEN Success(<<v1.value[1], Plus(v1.value[2], afterLengthOffset)>>)
          ELSE v1

\* the stub: nothing decoded, one byte consumed
\* a decodeDictionary that reports no element consumed
decodeDictionary_stuck(bytes, offset) == Success(<<"undefined", 0>>)
decodeDictionary(bytes, offset) == Success(<<"undefined", 1>>)

RECURSIVE decodeBytesFrom(_, _)
\* the loop of decodeBytes from one offset on; a failure stands for the
\* Error the loop throws
decodeBytesFrom(bytes, offset) ==
  IF ~(offset < Len(bytes)) THEN Success("undefined")
  ELSE IF At(bytes, offset) = dictionary_start
    THEN decodeBytesFrom(bytes, offset + decodeDictionary(bytes, offset).value[2])
  ELSE Failure("Unexpected type token")

decodeBytes(bytes) == decodeBytesFrom(bytes, 0)

\* Try.map turns what its selector throws into a failure; the last map
\* replaces the result by ''
decode(buffer) ==
  LET v == toByteString(buffer)
      r == decodeBytes(v)
  IN IF r.ok THEN Success(<<>>) ELSE r

(***************************************************************************)
(* BTMessaging.ts: the 'connect' request.                                  *)
(***************************************************************************)
\* Buffer.alloc(size)
BufferAlloc(size) == [i \in 1..size |-> 0]

\* the value written least significant byte first
writeUInt32LE(buffer, value, offset) ==
  [i \in 1..Len(buffer) |->
    IF i = offset + 1 THEN value % 256
    ELSE IF i = offset + 2 THEN (value \div 256) % 256
    ELSE IF i = offset + 3 THEN (value \div 65536) % 256
    ELSE IF i = offset + 4 THEN (value \div 16777216) % 256
    ELSE buffer[i]]

\* buffer.writeUInt32BE(value, offset)
writeUInt32BE(buffer, value, offset) ==
  [i \in 1..Len(buffer) |->
    IF i = offset + 1 THEN (value \div 16777216) % 256
    ELSE IF i = offset + 2 THEN (value \div 65536) % 256
    ELSE IF i = offset + 3 THEN (value \div 256) % 256
    ELSE IF i = offset + 4 THEN value % 256
    ELSE buffer[i]]

\* source.copy(target, targetStart): as many bytes as fit
BufferCopy(source, target, targetStart) ==
  [i \in 1..Len(target) |->
    IF i > targetStart /\ i - targetStart <= Len(source)
      THEN source[i - targetStart]
    ELSE target[i]]

\* the two halves of the protocol id 0x0000041727101980
ProtocolIdHigh == 1047
ProtocolIdLow == 655366528
ConnectAction == 0
ConnectMessageSize == 16
TransactionIdSize == 4
TransactionIdOffset == 12

\* what randomizer.randomBytes(size) does: it throws, or returns a buffer
Throws == [throws |-> TRUE, bytes |-> <<>>]
Returns(bytes) == [throws |-> FALSE, bytes |-> bytes]

\* returned is the outcome of randomizer.randomBytes(4)
createConnectMessage(returned) ==
  IF returned.throws THEN Failure("randomizer error")
  ELSE
    LET transactionId == returned.bytes
        message == BufferAlloc(ConnectMessageSize)
        withId == writeUInt32BE(writeUInt32BE(message, ProtocolIdHigh, 0),
                                ProtocolIdLow, 4)
        withAction == writeUInt32BE(withId, ConnectAction, 8)
    IN Success(BufferCopy(transactionId, withAction, TransactionIdOffset))

(***************************************************************************)
(* BTMessaging.ts: the response of a 'connect' request.                    *)
(***************************************************************************)
\* buffer.readUInt32BE(offset) throws a RangeError when the four bytes are
\* not all inside the buffer
readUInt32BE_throws(buffer, offset) == offset + 4 > Len(buffer)
readUInt32BE(buffer, offset) ==
  At(buffer, offset) * 16777216 + At(buffer, offset + 1) * 65536
    + At(buffer, offset + 2) * 256 + At(buffer, offset + 3)

\* Try.unwrap(value, error) of a value that is a number: never null
unwrap(value, error) == Success(value)
\* try.filter(selector, error), selected being selector(try.value)
filter(try, selected, error) ==
  IF ~try.ok THEN try ELSE IF selected THEN try ELSE Failure(error)
\* try.zipWith(other, (v1, v2) => [v1, v2]): the first failure, or the pair
zipWith(try, other) ==
  IF ~try.ok THEN try
  ELSE IF ~other.ok THEN other
  ELSE Success(<<try.value, other.value>>)

\* what a call did: an exception escaped it, or it returned a Try
Thrown(e) == [throws |-> TRUE, result |-> Failure(e)]
Returned(try) == [throws |-> FALSE, result |-> try]

\* Try.success(response.slice(8)).filter(v => v.length > 0, ...)
connectionIdOf(response) ==
  filter(Success(Slice(response, 8, Len(response))),
         Len(Slice(response, 8, Len(response))) > 0, "Invalid connection id")

\* the two reads are outside any try block: what they throw escapes
parseConnectionResponse(response) ==
  IF readUInt32BE_throws(response, 4) THEN Thrown("RangeError")
  ELSE
    LET transactionId ==
          unwrap(readUInt32BE(response, 4), "Invalid transaction id")
        connectionId == connectionIdOf(response)
        \* the second selector makes the object of v1[0], v1[1] and v2
        zipped ==
          zipWith(zipWith(unwrap(readUInt32BE(response, 0), "Invalid action"),
                          transactionId),
                  connectionId)
    IN IF readUInt32BE_throws(response, 0) THEN Thrown("RangeError")
       ELSE IF ~zipped.ok THEN Returned(zipped)
       ELSE Returned(Success([action |-> zipped.value[1][1],
                              transactionId |-> zipped.value[1][2],
                              connectionId |-> zipped.value[2]]))

(***************************************************************************)
(* BTMessaging.ts: sendMessage.                                            *)
(***************************************************************************)
\* a Nullable<string>
Null == [some |-> FALSE, text |-> <<>>]
Some(text) == [some |-> TRUE, text |-> text]

\* the 0-based places where "://" starts in text
SlashesAt(text) ==
  {i \in 0..(Len(text) - 3) : Slice(text, i, i + 3) = Str(<<":", "/", "/">>)}
Min(S) == CHOOSE i \in S : \A j \in S : i <= j
\* text up to its first '/', or all of it
UpToSlash(text) ==
  LET at == {i \in 0..(Len(text) - 1) : At(text, i) = CharCode["/"]}
  IN IF at = {} THEN text ELSE Slice(text, 0, Min(at))
\* the digits text ends with
RECURSIVE DigitSuffix(_)
DigitSuffix(text) ==
  IF text # <<>> /\ IsDigit(text[Len(text)])
    THEN Append(DigitSuffix(SubSeq(text, 1, Len(text) - 1)), text[Len(text)])
  ELSE <<>>
\* urlModule.parse(url), of which sendMessage reads port and host: without
\* "//" after the protocol there is no host; the port is the digits after
\* the last ':' of the authority, and host keeps the port
urlParse(text) ==
  IF SlashesAt(text) = {} THEN [port |-> Null, host |-> Null]
  ELSE
    LET authority ==
          UpToSlash(Slice(text, Min(SlashesAt(text)) + 3, Len(text)))
        digits == DigitSuffix(authority)
        before == Len(authority) - Len(digits)
    IN IF authority = <<>> THEN [port |-> Null, host |-> Null]
       ELSE IF digits # <<>> /\ before > 1 /\ authority[before] = CharCode[":"]
         THEN [port |-> Some(digits), host |-> Some(authority)]
       ELSE [port |-> Null, host |-> Some(authority)]

\* what the Observable of sendMessage does when it is subscribed to: it
\* calls socket.send and waits for the callback, or emits a Try at once
Sends(message, port, host) ==
  [sends |-> TRUE, message |-> message, port |-> port, host |-> host,
   emits |-> Failure("pending")]
Emits(try) ==
  [sends |-> FALSE, message |-> <<>>, port |-> 0, host |-> <<>>, emits |-> try]

\* params is a Try of [url, message]; the socket is the one shared socket
sendMessage(params) ==
  IF ~params.ok THEN Emits(params)
  ELSE
    LET url == urlParse(params.value.url)
        msg == params.value.message
    IN IF ~url.port.some THEN Emits(Failure("Missing port"))
       ELSE IF ParseInt(url.port.text).nan THEN Emits(Failure("Invalid port"))
       ELSE IF ~url.host.some THEN Emits(Failure("Missing host"))
       ELSE Sends(msg, ParseInt(url.port.text).n, url.host.text)

\* Self.sendConnectMessage of the first copy of the class: returned is what
\* crypto.randomBytes(4) returns
sendConnectMessage(url, returned) ==
  LET message == createConnectMessage(returned)
      mParams ==
        IF message.ok THEN Success([url |-> url, message |-> message.value])
        ELSE message
  IN sendMessage(mParams)

(***************************************************************************)
(* The inputs drawn.                                                       *)
(***************************************************************************)
SeqsUpTo(S, n) == UNION {[1..k -> S] : k \in 0..n}
Repeat(c, n) == [i \in 1..n |-> c]

\* texts: ':' and a digit, which the string grammar uses itself, a two-byte
\* character, and the two halves of a surrogate pair
TextAlphabet ==
  {CharCode["1"], CharCode[":"], CharCode["a"], EAcute, HighSurrogate,
   LowSurrogate}
LongTexts == {Repeat(CharCode["a"], n) : n \in 10..MaxLong}
Texts == SeqsUpTo(TextAlphabet, MaxLen) \cup LongTexts \cup {Str(<<"s", "p", "a", "m">>)}

PrimitiveSamples ==
  {StrV(Str(<<"s", "p", "a", "m">>)), NumV(1), NumV(12), NumV(0 - 1), FracV(0),
   BoolV(TRUE)}
Primitives ==
  {StrV(text) : text \in Texts} \cup PrimitiveSamples
  \cup {NumV(0), NumV(0 - 2), FracV(1), FracV(0 - 1), BoolV(FALSE)}

KeySamples == {Str(<<"a">>), Str(<<"b">>), Str(<<"1", "0">>), Str(<<"9">>)}
EntryValueSamples ==
  {StrV(Str(<<"s", "p", "a", "m">>)), NumV(1), NumV(0 - 1), BoolV(FALSE)}
\* the entries of a Map or object: no key twice
EntryLists ==
  {entries \in SeqsUpTo([key : KeySamples, value : EntryValueSamples], MaxItems) :
    \A i, j \in 1..Len(entries) : i # j => entries[i].key # entries[j].key}

Values ==
  Primitives
  \cup {ArrV(items) : items \in SeqsUpTo(PrimitiveSamples, MaxItems)}
  \cup {MapV(entries) : entries \in EntryLists}
  \cup {ObjV(entries) : entries \in EntryLists}

\* the orders in which n entries can be inserted
Orders(n) == {f \in [1..n -> 1..n] : \A i, j \in 1..n : i # j => f[i] # f[j]}
\* every pair of entry lists that hold the same entries
Reorderings ==
  UNION {{<<entries, [i \in 1..Len(entries) |-> entries[f[i]]]>> :
           f \in Orders(Len(entries))} : entries \in EntryLists}

Dictionary(kind, entries) == IF kind = "map" THEN MapV(entries) ELSE ObjV(entries)

WireAlphabet ==
  {CharCode["0"], CharCode["1"], CharCode[":"], CharCode["-"], CharCode["a"]}
\* a string as the grammar writes it: <length>:<payload>
StringEncoding(payload) == NatToString(Len(payload)) \o <<delimiter>> \o payload
Prefixes(text) == {SubSeq(text, 1, k) : k \in 0..Len(text)}
ByteStrings ==
  SeqsUpTo(WireAlphabet, MaxBuf)
  \cup UNION {Prefixes(StringEncoding(text)) : text \in LongTexts}
  \cup {Str(<<"4", ":", "s", "p", "a", "m">>),
        Str(<<"a", "4", ":", "s", "p", "a", "m", "1">>)}

Inputs ==
  {[kind |-> "value", obj |-> obj] : obj \in Values}
  \cup {[kind |-> "dictionaries", obj |-> Dictionary(q[1], q[3][1]),
          other |-> Dictionary(q[2], q[3][2])] :
         q \in {"map", "obj"} \X {"map", "obj"} \X Reorderings}
  \cup {[kind |-> "bytes", bytes |-> b, offset |-> k] :
         <<b, k>> \in ByteStrings \X (0..MaxOffset)}

ByteSamples == {0, 255}

\* the buffers given to decode: 'd', 'e', ':', the first byte of a two-byte
\* UTF-8 sequence and a byte that is never valid UTF-8
ScanBytes == {CharCode["d"], CharCode["e"], CharCode[":"], 195, 255}
BufferInputs ==
  {[kind |-> "buffer", buffer |-> b] : b \in SeqsUpTo(ScanBytes, MaxScan)}

\* the datagrams a tracker may answer with: an action, a transaction id and
\* a connection id, cut at every length.  The first byte of a 32-bit field
\* stays below 128, so that the field fits the integers of the checker.
ActionFields == {<<0, 0, 0, 0>>, <<0, 0, 0, 1>>, <<0, 0, 0, 3>>, <<1, 0, 0, 0>>}
TransactionIds == {<<0, 0, 0, 0>>, <<0, 0, 255, 1>>, <<127, 255, 255, 255>>}
ConnectionIdBytes == {0, 255}
Responses ==
  {SubSeq(q[1] \o q[2] \o Repeat(q[3], MaxResponse - 8), 1, n) :
     <<q, n>> \in (ActionFields \X TransactionIds \X ConnectionIdBytes)
                  \X (0..MaxResponse)}
ResponseInputs == {[kind |-> "response", response |-> r] : r \in Responses}

\* the messaging handlers built (new Self() behind Builder.build) and the
\* copy of the class each is an instance of: the file holds the class twice
Handlers == {1, 2}
Copies == {"first", "second"}
AnnounceUrls ==
  {Null, Some(Str(<<"u", "d", "p", ":", "/", "/", "t", ":", "8", "0">>)),
   Some(Str(<<"u", "d", "p", ":", "/", "/", "t">>)), Some(Str(<<"t">>))}
\* withSocket is given the one socket of the model or nothing
Builds ==
  [Handlers -> [copy : Copies, btSocket : BOOLEAN, btAnnounceUrl : AnnounceUrls]]
\* what crypto.randomBytes(4) returns to a session
SessionTransactionIds == {<<0, 0, 0, 0>>, <<0, 0, 255, 1>>}
\* the datagrams that arrive: full 'connect' responses and a short one
Datagrams ==
  {<<0, 0, 0, 0>> \o t \o Repeat(255, 8) : t \in SessionTransactionIds}
  \cup {<<0, 0, 0, 3>>}
RandomOutcomes ==
  {Throws} \cup {Returns(b) : b \in SeqsUpTo(ByteSamples, MaxRandLen)}

(***************************************************************************)
(* The state.                                                              *)
(***************************************************************************)
VARIABLES
  input,          \* the input drawn for the codec
  pc,             \* how far the codec has run on it
  encoded,        \* the Try<Buffer> of encode(input.obj)
  encoded2,       \* the Try<Buffer> of encode(input.other)
  argBytes,       \* the byte string array given to decodeString
  argOffset,      \* the offset given to decodeString
  decoded,        \* the Try of decodeString or of decode
  scanOffset,     \* the offset of the loop of decodeBytes
  randomizerLog,  \* the sizes asked of randomizer.randomBytes, oldest first
  connectCalls,   \* the calls of createConnectMessage made
  randomBytes,    \* what the randomizer did in the last call
  message,        \* the Try<Buffer> of the last createConnectMessage
  parsed,         \* what parseConnectionResponse(input.response) did
  handlers,       \* each handler's copy of the class, btSocket, btAnnounceUrl
  started,        \* what each handler's startSendingMessages returned
  listeners,      \* the handlers of the socket's 'message' listeners, in order
  sendCalls,      \* the calls of socket.send made, oldest first
  sendResult,     \* the Try<number> each handler's sendMessage emitted
  announce,       \* whether each handler subscribed to sendAnnounceMessage
  arrived,        \* the datagrams the socket received, oldest first
  btMessage       \* the places in arrived of what each btMessage was given

vars ==
  <<input, pc, encoded, encoded2, argBytes, argOffset, decoded, scanOffset,
    randomizerLog,
    connectCalls, randomBytes, message, parsed, handlers, started, listeners,
    sendCalls, sendResult, announce, arrived, btMessage>>
codecVars ==
  <<input, pc, encoded, encoded2, argBytes, argOffset, decoded, scanOffset>>
connectVars == <<randomizerLog, connectCalls, randomBytes, message>>
parseVars == <<parsed>>
sessionVars ==
  <<handlers, started, listeners, sendCalls, sendResult, announce, arrived,
    btMessage>>
messagingVars == <<connectVars, parseVars, sessionVars>>

NotRun == [ok |-> FALSE, error |-> "not run"]
NotParsed == Returned(NotRun)

InitFunctions ==
  /\ randomizerLog = <<>>
  /\ connectCalls = 0
  /\ randomBytes = Throws
  /\ message = NotRun
  /\ parsed = NotParsed

\* no handler has been started and the socket has seen nothing
InitHandlers ==
  /\ started = [h \in Handlers |-> NotRun]
  /\ listeners = <<>>
  /\ sendCalls = <<>>
  /\ sendResult = [h \in Handlers |-> NotRun]
  /\ announce = [h \in Handlers |-> FALSE]
  /\ arrived = <<>>
  /\ btMessage = [h \in Handlers |-> <<>>]

\* new Self(): neither btSocket nor btAnnounceUrl is set
Constructed == [copy |-> "first", btSocket |-> FALSE, btAnnounceUrl |-> Null]

InitMessaging ==
  /\ InitFunctions
  /\ handlers = [h \in Handlers |-> Constructed]
  /\ InitHandlers

InitCodec ==
  /\ pc = "start"
  /\ encoded = NotRun
  /\ encoded2 = NotRun
  /\ argBytes = <<>>
  /\ argOffset = 0
  /\ decoded = NotRun
  /\ scanOffset = 0

(***************************************************************************)
(* The codec: each run applies the codec to one drawn input.               *)
(***************************************************************************)
\* Encoder.encode(obj, 'utf-8')
Encode ==
  /\ pc = "start"
  /\ input.kind = "value"
  /\ encoded' = encode(input.obj)
  /\ pc' = "encoded"
  /\ UNCHANGED <<input, encoded2, argBytes, argOffset, decoded, scanOffset, messagingVars>>

\* encode of two dictionaries that hold the same entries
EncodeBoth ==
  /\ pc = "start"
  /\ input.kind = "dictionaries"
  /\ encoded' = encode(input.obj)
  /\ encoded2' = encode(input.other)
  /\ pc' = "encoded"
  /\ UNCHANGED <<input, argBytes, argOffset, decoded, scanOffset, messagingVars>>

\* the test 'Bencoding strings': toByteString of the encoded string, then
\* decodeString at offset 0
DecodeEncodedString ==
  /\ pc = "encoded"
  /\ input.kind = "value"
  /\ input.obj.t = "str"
  /\ encoded.ok
  /\ argBytes' = toByteString(encoded.value)
  /\ argOffset' = 0
  /\ decoded' = decodeString(toByteString(encoded.value), 0)
  /\ pc' = "decodedString"
  /\ UNCHANGED <<input, encoded, encoded2, scanOffset, messagingVars>>

\* Decoder.decodeString(bytes, offset) of a given byte string array
DecodeString ==
  /\ pc = "start"
  /\ input.kind = "bytes"
  /\ argBytes' = input.bytes
  /\ argOffset' = input.offset
  /\ decoded' = decodeString(input.bytes, input.offset)
  /\ pc' = "decodedString"
  /\ UNCHANGED <<input, encoded, encoded2, scanOffset, messagingVars>>

\* Decoder.decode(buffer, 'utf-8') of what encode returned
Decode ==
  /\ pc = "encoded"
  /\ input.kind = "value"
  /\ encoded.ok
  /\ decoded' = decode(encoded.value)
  /\ pc' = "decoded"
  /\ UNCHANGED <<input, encoded, encoded2, argBytes, argOffset, scanOffset, messagingVars>>

InitBencode == input \in Inputs /\ InitCodec /\ InitMessaging
NextBencode ==
  Encode \/ EncodeBoth \/ DecodeEncodedString \/ DecodeString \/ Decode
SpecBencode == InitBencode /\ [][NextBencode]_vars

(***************************************************************************)
(* The codec: decode of one drawn buffer, one loop iteration at a time.    *)
(***************************************************************************)
\* decode up to the call of decodeBytes: the filter v.length >= 0 lets
\* every buffer through, and the loop starts at offset 0
DecodeBegin ==
  /\ pc = "start"
  /\ input.kind = "buffer"
  /\ argBytes' = toByteString(input.buffer)
  /\ scanOffset' = 0
  /\ pc' = "scanning"
  /\ UNCHANGED <<input, encoded, encoded2, argOffset, decoded, messagingVars>>

\* one iteration of the while loop of decodeBytes; what it throws is caught
\* by the Try.map it runs in and becomes the failure decode returns
DecodeIterate ==
  /\ pc = "scanning"
  /\ scanOffset < Len(argBytes)
  /\ LET type == elementAtIndex(argBytes, scanOffset)
         dictionary == decodeDictionary(argBytes, scanOffset)
     IN IF ~type.ok
          THEN decoded' = type /\ pc' = "returned" /\ UNCHANGED scanOffset
        ELSE IF type.value # dictionary_start
          THEN /\ decoded' = Failure("Unexpected type token")
               /\ pc' = "returned"
               /\ UNCHANGED scanOffset
        ELSE IF ~dictionary.ok
          THEN decoded' = dictionary /\ pc' = "returned" /\ UNCHANGED scanOffset
        ELSE /\ scanOffset' = scanOffset + dictionary.value[2]
             /\ UNCHANGED <<pc, decoded>>
  /\ UNCHANGED <<input, encoded, encoded2, argBytes, argOffset, messagingVars>>

\* the loop ends: decodeBytes returns and the last map puts ''
DecodeReturn ==
  /\ pc = "scanning"
  /\ ~(scanOffset < Len(argBytes))
  /\ decoded' = Success(<<>>)
  /\ pc' = "returned"
  /\ UNCHANGED <<input, encoded, encoded2, argBytes, argOffset, scanOffset,
                 messagingVars>>

InitScan == input \in BufferInputs /\ InitCodec /\ InitMessaging
NextScan == DecodeBegin \/ DecodeIterate \/ DecodeReturn
\* decode is one synchronous call: once called it runs on
SpecScan == InitScan /\ [][NextScan]_vars /\ WF_vars(NextScan)

(***************************************************************************)
(* The messaging: calls of createConnectMessage on one randomizer.         *)
(***************************************************************************)
CreateConnectMessage ==
  /\ connectCalls < MaxCalls
  /\ \E returned \in RandomOutcomes :
       /\ randomBytes' = returned
       /\ message' = createConnectMessage(returned)
  /\ randomizerLog' = Append(randomizerLog, TransactionIdSize)
  /\ connectCalls' = connectCalls + 1
  /\ UNCHANGED <<codecVars, parseVars, sessionVars>>

InitConnect == input = [kind |-> "none"] /\ InitCodec /\ InitMessaging
NextConnect == CreateConnectMessage
SpecConnect == InitConnect /\ [][NextConnect]_vars

(***************************************************************************)
(* The messaging: parseConnectionResponse of one drawn datagram.           *)
(***************************************************************************)
ParseConnectionResponse ==
  /\ input.kind = "response"
  /\ parsed = NotParsed
  /\ parsed' = parseConnectionResponse(input.response)
  /\ UNCHANGED <<codecVars, connectVars, sessionVars>>

InitParse == input \in ResponseInputs /\ InitCodec /\ InitMessaging
NextParse == ParseConnectionResponse
SpecParse == InitParse /\ [][NextParse]_vars

(***************************************************************************)
(* The messaging: handlers started on one shared socket.                   *)
(***************************************************************************)
Pending == Failure("pending")

\* Self.startSendingMessages() of handler h, all of it: the listener that
\* subscribing to messageStream registers, the subscription to
\* sendConnectMessage, which calls socket.send or emits a failure at once,
\* and the subscription to sendAnnounceMessage
StartSendingMessages(h) ==
  /\ started[h] = NotRun
  /\ LET self == handlers[h]
     IN IF ~self.btSocket
          THEN /\ started' = [started EXCEPT ![h] = Failure("Missing socket")]
               /\ UNCHANGED <<listeners, sendCalls, sendResult, announce>>
        ELSE IF ~self.btAnnounceUrl.some
          THEN /\ started' =
                    [started EXCEPT ![h] = Failure("Missing announce URL")]
               /\ UNCHANGED <<listeners, sendCalls, sendResult, announce>>
        ELSE IF self.copy = "second"
          \* sendConnectMessage throws Error('') after the listener is on
          THEN /\ listeners' = Append(listeners, h)
               /\ started' = [started EXCEPT ![h] = Failure("")]
               /\ UNCHANGED <<sendCalls, sendResult, announce>>
        ELSE \E id \in SessionTransactionIds :
          LET sent == sendConnectMessage(self.btAnnounceUrl.text, Returns(id))
          IN /\ listeners' = Append(listeners, h)
             /\ sendCalls' =
                  IF sent.sends
                    THEN Append(sendCalls,
                           [handler |-> h, message |-> sent.message,
                            port |-> sent.port, host |-> sent.host])
                  ELSE sendCalls
             /\ sendResult' = [sendResult EXCEPT ![h] = sent.emits]
             /\ announce' = [announce EXCEPT ![h] = TRUE]
             /\ started' = [started EXCEPT ![h] = Success("undefined")]
  /\ UNCHANGED <<codecVars, connectVars, parseVars, handlers, arrived,
                 btMessage>>

\* the callback of socket.send: an error or the number of bytes sent
SendCallback(h) ==
  /\ sendResult[h] = Pending
  /\ \E call \in 1..Len(sendCalls) :
       /\ sendCalls[call].handler = h
       /\ \E error \in BOOLEAN :
            sendResult' =
              [sendResult EXCEPT
                 ![h] = IF error THEN Failure("send error")
                        ELSE Success(Len(sendCalls[call].message))]
  /\ UNCHANGED <<codecVars, connectVars, parseVars, handlers, started,
                 listeners, sendCalls, announce, arrived, btMessage>>

\* the socket emits 'message': every listener registered is called, and
\* each hands the datagram to the btMessage of its handler
Message ==
  /\ Len(arrived) < MaxArrivals
  /\ \E datagram \in Datagrams : arrived' = Append(arrived, datagram)
  /\ btMessage' =
       [h \in Handlers |->
         btMessage[h]
           \o [i \in 1..Cardinality({k \in 1..Len(listeners) : listeners[k] = h})
                 |-> Len(arrived) + 1]]
  /\ UNCHANGED <<codecVars, connectVars, parseVars, handlers, started,
                 listeners, sendCalls, sendResult, announce>>

InitSession ==
  /\ input = [kind |-> "none"]
  /\ InitCodec
  /\ InitFunctions
  /\ handlers \in Builds
  /\ InitHandlers
NextSession ==
  \/ \E h \in Handlers : StartSendingMessages(h)
  \/ \E h \in Handlers : SendCallback(h)
  \/ Message
SpecSession == InitSession /\ [][NextSession]_vars
\* the event loop runs every callback that is due; nothing obliges a caller
\* to start a handler or a tracker to answer
SpecSessionFair ==
  SpecSession /\ \A h \in Handlers : WF_vars(SendCallback(h))

(***************************************************************************)
(* What the claims speak of.                                               *)
(***************************************************************************)
HasDelimiterFrom(text, k) == \E i \in (k + 1)..Len(text) : text[i] = delimiter
\* the 1-based place of the first ':' at or after offset k
FirstDelimiterFrom(text, k) ==
  CHOOSE i \in (k + 1)..Len(text) :
    text[i] = delimiter /\ \A j \in (k + 1)..(i - 1) : text[j] # delimiter

\* text holds <len>:<payload> from offset k on: a canonical decimal len, ':'
\* and at least len more elements
HasStringEncodingAt(text, k) ==
  /\ HasDelimiterFrom(text, k)
  /\ LET d == FirstDelimiterFrom(text, k)
     IN /\ IsCanonicalDecimal(SubSeq(text, k + 1, d - 1))
        /\ d + DigitsValue(SubSeq(text, k + 1, d - 1)) <= Len(text)
PayloadAt(text, k) ==
  LET d == FirstDelimiterFrom(text, k)
  IN SubSeq(text, d + 1, d + DigitsValue(SubSeq(text, k + 1, d - 1)))
\* text is <len>:<payload> and nothing more
IsStringEncoding(text) ==
  HasStringEncodingAt(text, 0) /\ StringEncoding(PayloadAt(text, 0)) = text

\* text is a proper prefix of some <len>:<payload>: cut before the ':' it is
\* empty or a canonical decimal, cut after it the payload is short
IsTruncatedStringEncoding(text) ==
  IF HasDelimiterFrom(text, 0)
    THEN LET d == FirstDelimiterFrom(text, 0)
         IN /\ IsCanonicalDecimal(SubSeq(text, 1, d - 1))
            /\ Len(text) - d < DigitsValue(SubSeq(text, 1, d - 1))
  ELSE text = <<>> \/ IsCanonicalDecimal(text)

\* no surrogate code unit outside a high-low pair
IsWellFormed(text) ==
  \A i \in 1..Len(text) :
    /\ IsHigh(text[i]) => (i < Len(text) /\ IsLow(text[i + 1]))
    /\ IsLow(text[i]) => (i > 1 /\ IsHigh(text[i - 1]))

IsUnrepresentableNumber(p) == p.t = "num" /\ (p.n < 0 \/ p.frac)
HasUnrepresentableNumber(obj) ==
  IF obj.t = "arr"
    THEN \E i \in 1..Len(obj.items) : IsUnrepresentableNumber(obj.items[i])
  ELSE IF obj.t \in {"map", "obj"}
    THEN \E i \in 1..Len(obj.entries) : IsUnrepresentableNumber(obj.entries[i].value)
  ELSE IsUnrepresentableNumber(obj)

StringRoundTripDone ==
  pc = "decodedString" /\ input.kind = "value"
StringDecodedAtZero ==
  pc = "decodedString" /\ input.kind = "bytes" /\ argOffset = 0

(***************************************************************************)
(* The claims.                                                             *)
(***************************************************************************)
\* C1 (as stated): for every string s, encode(s) succeeds and decodeString of
\* toByteString(encoded) at offset 0 succeeds with the value s.
C1_StringRoundTripEveryString ==
  /\ (pc = "encoded" /\ input.kind = "value" /\ input.obj.t = "str") => encoded.ok
  /\ StringRoundTripDone => (decoded.ok /\ decoded.value[1] = input.obj.s)

\* C1 (amended): for every string s with no unpaired surrogate code unit,
\* encode(s) succeeds and decodeString of toByteString(encoded) at offset 0
\* succeeds with the value s; ':' and leading digits in s do no harm.
C1_StringRoundTripWellFormed ==
  /\ (pc = "encoded" /\ input.kind = "value" /\ input.obj.t = "str") => encoded.ok
  /\ (StringRoundTripDone /\ IsWellFormed(input.obj.s))
       => (decoded.ok /\ decoded.value[1] = input.obj.s)

\* a string that starts with a digit, holds ':' and a two-byte character,
\* and came back
C1_Witness ==
  /\ StringRoundTripDone
  /\ Len(input.obj.s) >= 3
  /\ IsDigit(input.obj.s[1])
  /\ \E i \in 1..Len(input.obj.s) : input.obj.s[i] = delimiter
  /\ \E i \in 1..Len(input.obj.s) : input.obj.s[i] = EAcute
  /\ decoded.ok
  /\ decoded.value[1] = input.obj.s

\* C2: for every value v that encode accepts, decode(encode(v)) succeeds and
\* returns v with the full length of the encoding.
C2_TopLevelRoundTrip ==
  pc = "decoded" =>
    (decoded.ok /\ decoded.value = <<input.obj, Len(encoded.value)>>)

\* C3: decodeString of <len>:<payload> at offset 0 returns the payload and the
\* whole length of the encoding, digits + 1 + len; "4:spam" gives ("spam", 6).
C3_StringBytesConsumed ==
  (StringDecodedAtZero /\ IsStringEncoding(argBytes)) =>
    /\ decoded.ok
    /\ decoded.value = <<PayloadAt(argBytes, 0), Num(Len(argBytes))>>
    /\ (argBytes = Str(<<"4", ":", "s", "p", "a", "m">>)
          => decoded.value = <<Str(<<"s", "p", "a", "m">>), Num(6)>>)

\* C4: when the buffer holds <len>:<payload> from position k > 0 on,
\* decodeString(bytes, k) succeeds and returns that payload.
C4_StringAtOffset ==
  (pc = "decodedString" /\ input.kind = "bytes" /\ argOffset > 0
     /\ HasStringEncodingAt(argBytes, argOffset)) =>
    (decoded.ok /\ decoded.value[1] = PayloadAt(argBytes, argOffset))

\* C5: the decimal prefix the encoder writes before ':' is the number of
\* bytes that follow the ':' in the buffer.
C5_LengthPrefixCountsBytes ==
  (pc = "encoded" /\ input.kind = "value" /\ input.obj.t = "str" /\ encoded.ok) =>
    LET d == FirstDelimiterFrom(encoded.value, 0)
    IN DigitsValue(SubSeq(encoded.value, 1, d - 1)) = Len(encoded.value) - d

\* the bytes of a dictionary with its keys in strictly ascending order
CanonicalDictionary(entries) ==
  LET n == Len(entries)
      order == CHOOSE f \in [1..n -> 1..n] :
        \A i \in 1..(n - 1) : StringLess(entries[f[i]].key, entries[f[i + 1]].key)
  IN Str(<<"d">>)
     \o Flatten([i \in 1..n |->
          encodeString(entries[order[i]].key)
          \o encodePrimitive(entries[order[i]].value).value])
     \o Str(<<"e">>)

\* C6: two Maps or key-value objects with the same entries inserted in
\* different orders encode to the same bytes, the keys in ascending order
\* between 'd' and 'e'; {"a": 1, "b": "spam"} gives d1:ai1e1:b4:spame.
C6_CanonicalDictionaryEncoding ==
  (pc = "encoded" /\ input.kind = "dictionaries") =>
    /\ encoded = encoded2
    /\ encoded.ok => encoded.value = CanonicalDictionary(input.obj.entries)
    /\ ({input.obj.entries[i] : i \in 1..Len(input.obj.entries)}
          = {[key |-> Str(<<"a">>), value |-> NumV(1)],
             [key |-> Str(<<"b">>), value |-> StrV(Str(<<"s", "p", "a", "m">>))]})
       => encoded = Success(Str(<<"d", "1", ":", "a", "i", "1", "e", "1", ":", "b",
                                  "4", ":", "s", "p", "a", "m", "e">>))

\* "b" inserted before "a" in one Map, after it in the other
C6_Witness ==
  /\ pc = "encoded"
  /\ input.kind = "dictionaries"
  /\ input.obj.t = "map"
  /\ input.other.t = "map"
  /\ input.obj.entries
       = <<[key |-> Str(<<"b">>), value |-> StrV(Str(<<"s", "p", "a", "m">>))],
           [key |-> Str(<<"a">>), value |-> NumV(1)]>>
  /\ input.other.entries # input.obj.entries
  /\ encoded.ok
  /\ encoded2.ok

\* C7: encode of a negative or non-integer number fails, and encode of an
\* array or dictionary that holds such a number anywhere fails as a whole.
C7_UnrepresentableFails ==
  (pc = "encoded" /\ input.kind = "value" /\ HasUnrepresentableNumber(input.obj))
    => ~encoded.ok

\* an array whose first element can be encoded and whose last cannot
C7_Witness ==
  /\ pc = "encoded"
  /\ input.kind = "value"
  /\ input.obj.t = "arr"
  /\ Len(input.obj.items) = MaxItems
  /\ ~IsUnrepresentableNumber(input.obj.items[1])
  /\ IsUnrepresentableNumber(input.obj.items[MaxItems])
  /\ ~encoded.ok

\* C8: decodeString at offset 0 of a proper prefix of <len>:<payload> fails.
C8_TruncatedStringFails ==
  (StringDecodedAtZero /\ IsTruncatedStringEncoding(argBytes)) => ~decoded.ok

\* a prefix cut inside the payload, some of the payload still there
C8_Witness ==
  /\ StringDecodedAtZero
  /\ IsTruncatedStringEncoding(argBytes)
  /\ HasDelimiterFrom(argBytes, 0)
  /\ FirstDelimiterFrom(argBytes, 0) < Len(argBytes)
  /\ ~decoded.ok

\* C9: decodeString fails when the text before the first ':' is not a
\* canonical decimal (empty, leading zero, signed, or with a non-digit).
C9_MalformedLengthRejected ==
  (StringDecodedAtZero /\ HasDelimiterFrom(argBytes, 0)
     /\ ~IsCanonicalDecimal(SubSeq(argBytes, 1, FirstDelimiterFrom(argBytes, 0) - 1)))
    => ~decoded.ok

\* C10: when the randomizer returns 4 bytes t, createConnectMessage succeeds
\* with 16 bytes: 00 00 04 17 27 10 19 80, then the action 0, then t; a
\* randomizer that throws gives a failure; every call asks the randomizer
\* once, for 4 bytes.
C10_ConnectRequestLayout ==
  connectCalls > 0 =>
    /\ randomBytes.throws => ~message.ok
    /\ (~randomBytes.throws /\ Len(randomBytes.bytes) = 4) =>
         /\ message.ok
         /\ Len(message.value) = 16
         /\ SubSeq(message.value, 1, 8) = <<0, 0, 4, 23, 39, 16, 25, 128>>
         /\ SubSeq(message.value, 9, 12) = <<0, 0, 0, 0>>
         /\ SubSeq(message.value, 13, 16) = randomBytes.bytes
    /\ Len(randomizerLog) = connectCalls
    /\ \A i \in 1..Len(randomizerLog) : randomizerLog[i] = 4

\* a second call, whose randomizer returned 4 bytes that are not all zero
C10_Witness ==
  /\ connectCalls = 2
  /\ ~randomBytes.throws
  /\ Len(randomBytes.bytes) = 4
  /\ randomBytes.bytes[1] # 0
  /\ randomBytes.bytes[4] # randomBytes.bytes[1]
  /\ message.ok

ResponseParsed == input.kind = "response" /\ parsed # NotParsed

\* C11: for every response buffer of length 0 to 15, parseConnectionResponse
\* returns a failure: it neither throws nor returns a success.
C11_ShortResponseRejected ==
  (ResponseParsed /\ Len(input.response) \in 0..15)
    => (~parsed.throws /\ ~parsed.result.ok)

\* C12: for every response of full length whose action field (bytes 0-3) is
\* not 0, parseConnectionResponse returns a failure and never a success.
C12_WrongActionRejected ==
  (ResponseParsed /\ Len(input.response) >= 16
     /\ SubSeq(input.response, 1, 4) # <<0, 0, 0, 0>>)
    => (~parsed.throws /\ ~parsed.result.ok)

\* C17: for every buffer, decode returns a Try, the one the whole call
\* computes; an element that is not 'd' gives the failure Unexpected type
\* token; every iteration of the loop that goes on has increased the offset;
\* and the call returns after finitely many iterations.
C17_DecodeTerminates ==
  /\ [](pc = "returned" =>
         /\ decoded # NotRun
         /\ decoded = decode(input.buffer)
         /\ (\E i \in 1..Len(argBytes) : argBytes[i] # dictionary_start)
              => decoded = Failure("Unexpected type token"))
  /\ [][(pc = "scanning" /\ pc' = "scanning") => scanOffset' > scanOffset]_vars
  /\ (input.kind = "buffer") ~> (pc = "returned")

\* the loop went round at least once and then met an unexpected element
C17_Witness ==
  /\ pc = "returned"
  /\ input.kind = "buffer"
  /\ scanOffset > 0
  /\ scanOffset < Len(argBytes)
  /\ decoded = Failure("Unexpected type token")

Started(h) == started[h] # NotRun
HasListener(h) == \E k \in 1..Len(listeners) : listeners[k] = h
HasSent(h) == \E call \in 1..Len(sendCalls) : sendCalls[call].handler = h
\* datagram is a 'connect' response that passes every check of the
\* protocol for the request whose transaction id is id
IsValidConnectResponse(datagram, id) ==
  LET p == parseConnectionResponse(datagram)
  IN /\ ~p.throws
     /\ p.result.ok
     /\ p.result.value.action = ConnectAction
     /\ Len(p.result.value.connectionId) = 8
     /\ SubSeq(datagram, 5, 8) = id
\* the message stream of h was given a valid response to a request h sent
ConnectValidated(h) ==
  \E k \in 1..Len(btMessage[h]), call \in 1..Len(sendCalls) :
    /\ sendCalls[call].handler = h
    /\ IsValidConnectResponse(
         arrived[btMessage[h][k]],
         SubSeq(sendCalls[call].message, TransactionIdOffset + 1,
                TransactionIdOffset + TransactionIdSize))

\* C13: no handler has started its announce step unless its message stream
\* was given a valid 'connect' response to the request it sent.
C13_AnnounceAfterConnect ==
  \A h \in Handlers : announce[h] => ConnectValidated(h)

\* what a session has told its caller: startSendingMessages returns a
\* Try<void> and nothing else of a session reports an outcome
Outcome(h) ==
  IF ~Started(h) THEN "NotStarted"
  ELSE IF started[h].ok THEN "Started"
  ELSE "Failed"

\* C14: a started session eventually reaches a terminal outcome, Announced
\* or Failed.
C14_EventuallyTerminal ==
  \A h \in Handlers : Started(h) ~> (Outcome(h) \in {"Announced", "Failed"})

SendFailed(h) ==
  sendResult[h] # NotRun /\ sendResult[h] # Pending /\ ~sendResult[h].ok

\* C15: when sending the 'connect' datagram of a session has failed, the
\* session has reported a failure to its caller and not a success.
C15_SendFailureReported ==
  \A h \in Handlers : SendFailed(h) => Outcome(h) = "Failed"

\* C16: every datagram that arrived was given to the message stream of at
\* most one handler.
C16_ExclusiveDelivery ==
  \A i \in 1..Len(arrived) :
    Cardinality({h \in Handlers :
                  \E k \in 1..Len(btMessage[h]) : btMessage[h][k] = i}) <= 1

\* C18: a handler whose startSendingMessages returned a failure has no
\* 'message' listener on the socket and has sent no datagram; a listener or
\* a datagram belongs to a handler whose call returned a success.
C18_FailedStartHasNoEffect ==
  \A h \in Handlers :
    /\ (Started(h) /\ ~started[h].ok) => (~HasListener(h) /\ ~HasSent(h))
    /\ (HasListener(h) \/ HasSent(h)) => (Started(h) /\ started[h].ok)

====
